---- MODULE Spec2Model ----
(***************************************************************************)
(* Terrain commands of emergence_lib (src/emergence_lib/src/terrain/       *)
(* commands.rs): the five deferred commands that spawn terrain, spawn and  *)
(* despawn terraforming ghosts and previews, and apply terraforming        *)
(* actions, run against a world of entities and the MapGeometry index.     *)
(*                                                                         *)
(* The world is a record:                                                  *)
(*   ents                 live entities (id -> components)                 *)
(*   next                 the next entity id the world hands out           *)
(*   terrain_index        MapGeometry: tile -> terrain entity              *)
(*   ghost_terrain_index  MapGeometry: tile -> ghost entity                *)
(*   height_index         MapGeometry: tile -> height                      *)
(*   aborted              a command panicked (an unwrap of None, or        *)
(*                        entity_mut on a dead entity)                     *)
(* An Option<T> is a set with at most one element.                         *)
(***************************************************************************)
EXTENDS Integers, Sequences, FiniteSets, TLC

VARIABLES world, queue, batch, prev

vars == <<world, queue, batch, prev>>

(***************************************************************************)
(* Bounds of the model.                                                    *)
(***************************************************************************)
MaxEntities == 6
MaxPreviews == 1
MaxHeight == 2

\* Tiles, and the ones inside the map
TilePos == {1, 2}
ValidTiles == {1}
\* Terrain types, and the ones TerrainHandles holds a scene for
TerrainIds == {1, 2, 3}
SceneIds == {1, 2}
\* The heights terrain is spawned at
SpawnHeights == {1}

Some(x) == {x}
None == {}
Unwrap(o) == CHOOSE x \in o : TRUE

(***************************************************************************)
(* TerraformingAction                                                      *)
(***************************************************************************)
Raise == [op |-> "Raise", to |-> None]
Lower == [op |-> "Lower", to |-> None]
Change(t) == [op |-> "Change", to |-> Some(t)]
TerraformingAction == {Raise, Lower} \cup {Change(t) : t \in TerrainIds}

GhostKind == {"Ghost", "Preview"}

\* The terrain types and actions ghosts and previews are requested with
GhostTerrainIds == {1, 3}
GhostActions == {Raise, Lower, Change(2)}

(***************************************************************************)
(* Height: one terrain step up or down.                                    *)
(***************************************************************************)
raise(h) == h + 1
lower(h) == h - 1

(***************************************************************************)
(* MapGeometry                                                             *)
(***************************************************************************)
MapInsert(m, k, v) == [x \in (DOMAIN m) \cup {k} |-> IF x = k THEN v ELSE m[x]]
MapRemove(m, k) == [x \in (DOMAIN m) \ {k} |-> m[x]]
MapGet(m, k) == IF k \in DOMAIN m THEN Some(m[k]) ELSE None

is_valid(w, tile_pos) == tile_pos \in ValidTiles
get_height(w, tile_pos) == MapGet(w.height_index, tile_pos)
get_terrain(w, tile_pos) == MapGet(w.terrain_index, tile_pos)
get_ghost_terrain(w, tile_pos) == MapGet(w.ghost_terrain_index, tile_pos)
update_height(w, tile_pos, height) ==
    [w EXCEPT !.height_index = MapInsert(@, tile_pos, height)]
add_terrain(w, tile_pos, entity) ==
    [w EXCEPT !.terrain_index = MapInsert(@, tile_pos, entity)]
add_ghost_terrain(w, entity, tile_pos) ==
    [w EXCEPT !.ghost_terrain_index = MapInsert(@, tile_pos, entity)]
remove_ghost_terrain(w, tile_pos) ==
    [w EXCEPT !.ghost_terrain_index = MapRemove(@, tile_pos)]

(***************************************************************************)
(* The entity store (bevy World).                                          *)
(***************************************************************************)
Alive(w) == DOMAIN w.ents
contains(w, e) == e \in Alive(w)

Components(kind) ==
    [kind |-> kind, tile_pos |-> None, terrain_id |-> None, scene |-> None,
     height |-> None, zoning |-> None, action |-> None, visible |-> TRUE,
     parent |-> None, children |-> <<>>]

spawn(w, comps) ==
    [w EXCEPT !.ents = MapInsert(@, w.next, comps), !.next = @ + 1]

add_child(w, parent, child) ==
    [w EXCEPT !.ents[parent].children = Append(@, child),
              !.ents[child].parent = Some(parent)]

Range(s) == {s[i] : i \in 1..Len(s)}

RECURSIVE Descendants(_, _)
Descendants(w, e) ==
    LET kids == Range(w.ents[e].children)
    IN  kids \cup UNION {Descendants(w, k) : k \in kids}

RECURSIVE Without(_, _)
Without(s, gone) ==
    IF s = <<>> THEN <<>>
    ELSE IF Head(s) \in gone THEN Without(Tail(s), gone)
    ELSE <<Head(s)>> \o Without(Tail(s), gone)

Abort(w) == [w EXCEPT !.aborted = TRUE]

(***************************************************************************)
(* EntityMut::despawn_recursive: the entity leaves its parent's children,  *)
(* and it and all its descendants leave the world.                         *)
(***************************************************************************)
\* Mutant: the entity alone leaves the world, its descendants stay.
despawn_only(w, e) ==
    [w EXCEPT !.ents = [x \in Alive(w) \ {e} |->
                [w.ents[x] EXCEPT !.children = Without(@, {e})]]]

despawn_recursive(w, e) ==
    LET gone == {e} \cup Descendants(w, e)
        kept == Alive(w) \ gone
    IN  [w EXCEPT !.ents = [x \in kept |->
                [w.ents[x] EXCEPT !.children = Without(@, gone)]]]

(***************************************************************************)
(* The bundles.                                                            *)
(***************************************************************************)
TerrainBundle(w, terrain_id, tile_pos, scene_handle) ==
    [Components("terrain") EXCEPT
        !.terrain_id = Some(terrain_id), !.tile_pos = Some(tile_pos),
        !.scene = Some(scene_handle), !.height = get_height(w, tile_pos),
        !.zoning = Some("None")]

ColumnBundle == Components("column")

OverlayBundle == [Components("overlay") EXCEPT !.visible = FALSE]

GhostTerrainBundle(terraforming_action, tile_pos, scene_handle, world_pos_y) ==
    [Components("ghost") EXCEPT
        !.action = Some(terraforming_action), !.tile_pos = Some(tile_pos),
        !.scene = Some(scene_handle), !.height = Some(world_pos_y)]

TerrainPreviewBundle(tile_pos, terraforming_action, scene_handle, world_pos_y) ==
    [Components("preview") EXCEPT
        !.action = Some(terraforming_action), !.tile_pos = Some(tile_pos),
        !.scene = Some(scene_handle), !.height = Some(world_pos_y)]

(***************************************************************************)
(* TerrainHandles.scenes.get(terrain_id)                                   *)
(***************************************************************************)
scenes_get(terrain_id) == IF terrain_id \in SceneIds THEN Some(terrain_id) ELSE None

(***************************************************************************)
(* SpawnTerrainCommand::write                                              *)
(***************************************************************************)
\* Mutant: the overlay is attached before the column.
SpawnTerrainWrite_OverlayFirst(w, c) ==
    IF scenes_get(c.terrain_id) = None THEN Abort(w)
    ELSE
    LET scene_handle == Unwrap(scenes_get(c.terrain_id))
        w1 == update_height(w, c.tile_pos, c.height)
        terrain_entity == w1.next
        w2 == spawn(w1, TerrainBundle(w1, c.terrain_id, c.tile_pos, scene_handle))
        overlay == w2.next
        w3 == add_child(spawn(w2, OverlayBundle), terrain_entity, overlay)
        hex_column == w3.next
        w4 == add_child(spawn(w3, ColumnBundle), terrain_entity, hex_column)
    IN  add_terrain(w4, c.tile_pos, terrain_entity)

\* Mutant: a tile that has terrain keeps its index entry.
SpawnTerrainWrite_KeepsEntry(w, c) ==
    IF scenes_get(c.terrain_id) = None THEN Abort(w)
    ELSE
    LET scene_handle == Unwrap(scenes_get(c.terrain_id))
        w1 == update_height(w, c.tile_pos, c.height)
        terrain_entity == w1.next
        w2 == spawn(w1, TerrainBundle(w1, c.terrain_id, c.tile_pos, scene_handle))
        hex_column == w2.next
        w3 == add_child(spawn(w2, ColumnBundle), terrain_entity, hex_column)
        overlay == w3.next
        w4 == add_child(spawn(w3, OverlayBundle), terrain_entity, overlay)
    IN  IF get_terrain(w4, c.tile_pos) = None
        THEN add_terrain(w4, c.tile_pos, terrain_entity)
        ELSE w4

SpawnTerrainWrite(w, c) ==
    IF scenes_get(c.terrain_id) = None THEN Abort(w)
    ELSE
    LET scene_handle == Unwrap(scenes_get(c.terrain_id))
        w1 == update_height(w, c.tile_pos, c.height)
        terrain_entity == w1.next
        w2 == spawn(w1, TerrainBundle(w1, c.terrain_id, c.tile_pos, scene_handle))
        hex_column == w2.next
        w3 == add_child(spawn(w2, ColumnBundle), terrain_entity, hex_column)
        overlay == w3.next
        w4 == add_child(spawn(w3, OverlayBundle), terrain_entity, overlay)
    IN  add_terrain(w4, c.tile_pos, terrain_entity)

(***************************************************************************)
(* SpawnTerrainGhostCommand::write                                         *)
(***************************************************************************)
\* Mutant: the existing ghost leaves the index but is not despawned.
RemoveExistingGhost_Unregister(w, tile_pos, ghost_kind) ==
    LET maybe == get_ghost_terrain(w, tile_pos)
    IN  IF maybe # None /\ contains(w, Unwrap(maybe)) /\ ghost_kind = "Ghost"
        THEN remove_ghost_terrain(w, tile_pos)
        ELSE w

\* Mutant: the existing ghost is left alone.
RemoveExistingGhost_Skip(w, tile_pos, ghost_kind) == w

\* Mutant: a preview tears the existing ghost down, too.
RemoveExistingGhost_AnyKind(w, tile_pos, ghost_kind) ==
    LET maybe == get_ghost_terrain(w, tile_pos)
    IN  IF maybe # None /\ contains(w, Unwrap(maybe))
        THEN remove_ghost_terrain(despawn_recursive(w, Unwrap(maybe)), tile_pos)
        ELSE w

\* "Remove any existing ghost terrain"
RemoveExistingGhost(w, tile_pos, ghost_kind) ==
    LET maybe == get_ghost_terrain(w, tile_pos)
    IN  IF maybe # None /\ contains(w, Unwrap(maybe)) /\ ghost_kind = "Ghost"
        THEN remove_ghost_terrain(despawn_recursive(w, Unwrap(maybe)), tile_pos)
        ELSE w

\* Mutant: lowering previews a raise.
NewHeight_LowerRaises(current_height, terraforming_action) ==
    CASE terraforming_action.op = "Raise" -> current_height + 1
      [] terraforming_action.op = "Lower" -> current_height + 1
      [] OTHER -> current_height

NewHeight(current_height, terraforming_action) ==
    CASE terraforming_action.op = "Raise" -> current_height + 1
      [] terraforming_action.op = "Lower" -> current_height - 1
      [] OTHER -> current_height

\* Mutant: a preview is registered in the index like a ghost.
SpawnByKind_RegistersPreview(w, c, scene_handle, world_pos_y) ==
    IF c.ghost_kind = "Ghost"
    THEN LET ghost_entity == w.next
             w1 == spawn(w, GhostTerrainBundle(c.terraforming_action, c.tile_pos,
                                               scene_handle, world_pos_y))
         IN  add_ghost_terrain(w1, ghost_entity, c.tile_pos)
    ELSE LET preview_entity == w.next
             w1 == spawn(w, TerrainPreviewBundle(c.tile_pos, c.terraforming_action,
                                                 scene_handle, world_pos_y))
         IN  add_ghost_terrain(w1, preview_entity, c.tile_pos)

SpawnByKind(w, c, scene_handle, world_pos_y) ==
    IF c.ghost_kind = "Ghost"
    THEN LET ghost_entity == w.next
             w1 == spawn(w, GhostTerrainBundle(c.terraforming_action, c.tile_pos,
                                               scene_handle, world_pos_y))
         IN  add_ghost_terrain(w1, ghost_entity, c.tile_pos)
    ELSE spawn(w, TerrainPreviewBundle(c.tile_pos, c.terraforming_action,
                                       scene_handle, world_pos_y))

\* Mutant: the bounds of the map are not checked.
SpawnTerrainGhostWrite_NoBoundsCheck(w, c) ==
    LET w1 == RemoveExistingGhost(w, c.tile_pos, c.ghost_kind)
    IN  IF scenes_get(c.terrain_id) = None THEN Abort(w1)
        ELSE IF get_height(w1, c.tile_pos) = None THEN Abort(w1)
        ELSE
        LET scene_handle == Unwrap(scenes_get(c.terrain_id))
            current_height == Unwrap(get_height(w1, c.tile_pos))
            new_height == NewHeight(current_height, c.terraforming_action)
        IN  SpawnByKind(w1, c, scene_handle, new_height)

SpawnTerrainGhostWrite(w, c) ==
    IF ~is_valid(w, c.tile_pos) THEN w
    ELSE
    LET w1 == RemoveExistingGhost(w, c.tile_pos, c.ghost_kind)
    IN  IF scenes_get(c.terrain_id) = None THEN Abort(w1)
        ELSE IF get_height(w1, c.tile_pos) = None THEN Abort(w1)
        ELSE
        LET scene_handle == Unwrap(scenes_get(c.terrain_id))
            current_height == Unwrap(get_height(w1, c.tile_pos))
            new_height == NewHeight(current_height, c.terraforming_action)
        IN  SpawnByKind(w1, c, scene_handle, new_height)

(***************************************************************************)
(* DespawnGhostCommand::write                                              *)
(***************************************************************************)
\* Mutant: the ghost is despawned, its index entry stays.
DespawnGhostWrite_KeepsEntry(w, c) ==
    LET maybe_entity == get_ghost_terrain(w, c.tile_pos)
    IN  IF maybe_entity = None THEN w
        ELSE IF ~contains(w, Unwrap(maybe_entity)) THEN Abort(w)
        ELSE despawn_recursive(w, Unwrap(maybe_entity))

\* Mutant: the removed entry is unwrapped.
DespawnGhostWrite_Unwraps(w, c) ==
    LET maybe_entity == get_ghost_terrain(w, c.tile_pos)
        w1 == remove_ghost_terrain(w, c.tile_pos)
    IN  IF maybe_entity = None THEN Abort(w1)
        ELSE IF ~contains(w1, Unwrap(maybe_entity)) THEN Abort(w1)
        ELSE despawn_recursive(w1, Unwrap(maybe_entity))

DespawnGhostWrite(w, c) ==
    LET maybe_entity == get_ghost_terrain(w, c.tile_pos)
        w1 == remove_ghost_terrain(w, c.tile_pos)
    IN  IF maybe_entity = None THEN w1
        ELSE IF ~contains(w1, Unwrap(maybe_entity)) THEN Abort(w1)
        ELSE despawn_recursive(w1, Unwrap(maybe_entity))

(***************************************************************************)
(* ApplyTerraformingCommand::write                                         *)
(***************************************************************************)
\* Mutant: lowering takes two steps.
ApplyAction_LowerTwice(comps, terraforming_action) ==
    CASE terraforming_action.op = "Raise" ->
            [comps EXCEPT !.height = Some(raise(Unwrap(@)))]
      [] terraforming_action.op = "Lower" ->
            [comps EXCEPT !.height = Some(lower(lower(Unwrap(@))))]
      [] terraforming_action.op = "Change" ->
            [comps EXCEPT !.terrain_id = terraforming_action.to]

ApplyAction(comps, terraforming_action) ==
    CASE terraforming_action.op = "Raise" ->
            [comps EXCEPT !.height = Some(raise(Unwrap(@)))]
      [] terraforming_action.op = "Lower" ->
            [comps EXCEPT !.height = Some(lower(Unwrap(@)))]
      [] terraforming_action.op = "Change" ->
            [comps EXCEPT !.terrain_id = terraforming_action.to]

\* Mutant: resolving the edit also takes the tile's ghost away.
Resolve_DespawnsGhost(w, tile_pos, terrain_entity) ==
    LET w1 == update_height(w, tile_pos, Unwrap(w.ents[terrain_entity].height))
        w2 == [w1 EXCEPT !.ents[terrain_entity].zoning = Some("None")]
    IN  IF get_ghost_terrain(w2, tile_pos) # None
           /\ contains(w2, Unwrap(get_ghost_terrain(w2, tile_pos)))
        THEN remove_ghost_terrain(
                despawn_recursive(w2, Unwrap(get_ghost_terrain(w2, tile_pos))), tile_pos)
        ELSE w2

\* Mutant: the index takes the entity's height for every tile it has.
Resolve_EveryTile(w, tile_pos, terrain_entity) ==
    LET h == Unwrap(w.ents[terrain_entity].height)
        w1 == [w EXCEPT !.height_index =
                    [x \in (DOMAIN w.height_index) \cup {tile_pos} |-> h]]
    IN  [w1 EXCEPT !.ents[terrain_entity].zoning = Some("None")]

\* Mutant: the index keeps the height it had.
Resolve_NoHeightUpdate(w, tile_pos, terrain_entity) ==
    [w EXCEPT !.ents[terrain_entity].zoning = Some("None")]

\* Mutant: the zoning is left as it was.
Resolve_KeepsZoning(w, tile_pos, terrain_entity) ==
    update_height(w, tile_pos, Unwrap(w.ents[terrain_entity].height))

\* The index takes the entity's height, and the zoning is cleared.
Resolve(w, tile_pos, terrain_entity) ==
    LET w1 == update_height(w, tile_pos, Unwrap(w.ents[terrain_entity].height))
    IN  [w1 EXCEPT !.ents[terrain_entity].zoning = Some("None")]

ApplyTerraformingWrite(w, c) ==
    IF get_terrain(w, c.tile_pos) = None THEN Abort(w)
    ELSE
    LET terrain_entity == Unwrap(get_terrain(w, c.tile_pos))
    IN  IF ~contains(w, terrain_entity) THEN Abort(w)
        ELSE
        LET w1 == [w EXCEPT !.ents[terrain_entity] =
                        ApplyAction(@, c.terraforming_action)]
        IN  IF c.terraforming_action.op = "Change"
               /\ scenes_get(Unwrap(c.terraforming_action.to)) = None
            THEN Abort(w1)
            ELSE
            LET w2 == IF c.terraforming_action.op = "Change"
                      THEN [w1 EXCEPT !.ents[terrain_entity].scene =
                                scenes_get(Unwrap(c.terraforming_action.to))]
                      ELSE w1
            IN  Resolve(w2, c.tile_pos, terrain_entity)

(***************************************************************************)
(* Command::write, by command.                                             *)
(***************************************************************************)
Write(w, c) ==
    CASE c.cmd = "SpawnTerrain" -> SpawnTerrainWrite(w, c)
      [] c.cmd = "SpawnTerrainGhost" -> SpawnTerrainGhostWrite(w, c)
      [] c.cmd = "DespawnGhost" -> DespawnGhostWrite(w, c)
      [] c.cmd = "ApplyTerraforming" -> ApplyTerraformingWrite(w, c)

(***************************************************************************)
(* TerrainCommandsExt for Commands: each method adds one command to the    *)
(* queue; the queue is applied front to back.                              *)
(***************************************************************************)
SpawnTerrainCommand(tile_pos, height, terrain_id) ==
    [cmd |-> "SpawnTerrain", tile_pos |-> tile_pos, height |-> height,
     terrain_id |-> terrain_id]

SpawnTerrainGhostCommand(tile_pos, terrain_id, terraforming_action, ghost_kind) ==
    [cmd |-> "SpawnTerrainGhost", tile_pos |-> tile_pos, terrain_id |-> terrain_id,
     terraforming_action |-> terraforming_action, ghost_kind |-> ghost_kind]

DespawnGhostCommand(tile_pos) == [cmd |-> "DespawnGhost", tile_pos |-> tile_pos]

ApplyTerraformingCommand(tile_pos, terraforming_action) ==
    [cmd |-> "ApplyTerraforming", tile_pos |-> tile_pos,
     terraforming_action |-> terraforming_action]

\* Mutant: the command goes to the front of the queue.
add_front(q, c) == <<c>> \o q

add(q, c) == Append(q, c)

spawn_terrain(q, tile_pos, height, terrain_id) ==
    add(q, SpawnTerrainCommand(tile_pos, height, terrain_id))

spawn_ghost_terrain(q, tile_pos, terrain_id, terraforming_action) ==
    add(q, SpawnTerrainGhostCommand(tile_pos, terrain_id, terraforming_action, "Ghost"))

despawn_ghost_terrain(q, tile_pos) == add(q, DespawnGhostCommand(tile_pos))

spawn_preview_terrain(q, tile_pos, terrain_id, terraforming_action) ==
    add(q, SpawnTerrainGhostCommand(tile_pos, terrain_id, terraforming_action, "Preview"))

apply_terraforming_action(q, tile_pos, terraforming_action) ==
    add(q, ApplyTerraformingCommand(tile_pos, terraforming_action))

(***************************************************************************)
(* What a command needs of the model's bounds: entity ids left, room for   *)
(* one more preview, and a height that stays in 0..MaxHeight.              *)
(***************************************************************************)
Needs(c) ==
    CASE c.cmd = "SpawnTerrain" -> 3
      [] c.cmd = "SpawnTerrainGhost" -> 1
      [] OTHER -> 0

Previews(w) == {e \in Alive(w) : w.ents[e].kind = "preview"}

InBounds(w, c) ==
    /\ w.next + Needs(c) <= MaxEntities + 1
    /\ c.cmd = "SpawnTerrainGhost" /\ c.ghost_kind = "Preview" =>
         Cardinality(Previews(w)) < MaxPreviews
    /\ c.cmd = "ApplyTerraforming" /\ get_terrain(w, c.tile_pos) # None
         /\ contains(w, Unwrap(get_terrain(w, c.tile_pos))) =>
         LET h == Unwrap(w.ents[Unwrap(get_terrain(w, c.tile_pos))].height)
         IN  /\ c.terraforming_action.op = "Raise" => h < MaxHeight
             /\ c.terraforming_action.op = "Lower" => h > 0

(***************************************************************************)
(* The state machine. A step is one system run: the system submits         *)
(* commands, and the queue is then applied in order. batch is what was     *)
(* submitted since the last synchronisation point, prev the world at that  *)
(* point.                                                                  *)
(***************************************************************************)
EmptyWorld ==
    [ents |-> <<>>, next |-> 1, terrain_index |-> <<>>,
     ghost_terrain_index |-> <<>>, height_index |-> <<>>, aborted |-> FALSE]

Init ==
    /\ world = EmptyWorld
    /\ queue = <<>>
    /\ batch = <<>>
    /\ prev = EmptyWorld

\* Submit q (an empty queue plus one command) and apply it.
Run(q) ==
    /\ ~world.aborted
    /\ queue = <<>>
    /\ InBounds(world, Head(q))
    /\ world' = Write(world, Head(q))
    /\ queue' = Tail(q)
    /\ batch' = q
    /\ prev' = world

SpawnTerrain ==
    \E tile_pos \in TilePos, height \in SpawnHeights, terrain_id \in TerrainIds :
        Run(spawn_terrain(queue, tile_pos, height, terrain_id))

SpawnGhost ==
    \E tile_pos \in TilePos, terrain_id \in GhostTerrainIds, a \in GhostActions :
        Run(spawn_ghost_terrain(queue, tile_pos, terrain_id, a))

SpawnPreview ==
    \E tile_pos \in TilePos, terrain_id \in GhostTerrainIds, a \in GhostActions :
        Run(spawn_preview_terrain(queue, tile_pos, terrain_id, a))

DespawnGhost ==
    \E tile_pos \in TilePos : Run(despawn_ghost_terrain(queue, tile_pos))

ApplyTerraforming ==
    \E tile_pos \in TilePos, a \in TerraformingAction :
        Run(apply_terraforming_action(queue, tile_pos, a))

(***************************************************************************)
(* The scene spawner gives an entity that carries a scene handle its       *)
(* scene instance, as a child.                                             *)
(***************************************************************************)
HasScene(w, e) == \E k \in Range(w.ents[e].children) : w.ents[k].kind = "scene"

SceneSpawner ==
    /\ ~world.aborted
    /\ queue = <<>>
    /\ world.next <= MaxEntities
    /\ \E e \in Alive(world) :
        /\ world.ents[e].scene # None
        /\ ~HasScene(world, e)
        /\ world' = add_child(spawn(world, Components("scene")), e, world.next)
    /\ batch' = <<>>
    /\ prev' = world
    /\ UNCHANGED queue

Next ==
    \/ SpawnTerrain
    \/ SpawnGhost
    \/ SpawnPreview
    \/ DespawnGhost
    \/ ApplyTerraforming
    \/ SceneSpawner

Spec == Init /\ [][Next]_vars

(***************************************************************************)
(* With a collaborator that despawns ghosts and previews on its own; the   *)
(* index is not told.                                                      *)
(***************************************************************************)
ExternalDespawn ==
    /\ ~world.aborted
    /\ queue = <<>>
    /\ \E e \in Alive(world) :
        /\ world.ents[e].kind \in {"ghost", "preview"}
        /\ world' = despawn_recursive(world, e)
    /\ batch' = <<>>
    /\ prev' = world
    /\ UNCHANGED queue

NextExt ==
    \/ Next
    \/ ExternalDespawn

SpecExt == Init /\ [][NextExt]_vars

(***************************************************************************)
(* With a collaborator that zones terrain: it marks a terrain entity for   *)
(* terraforming.                                                           *)
(***************************************************************************)
SetZoning ==
    /\ ~world.aborted
    /\ queue = <<>>
    /\ \E e \in Alive(world) :
        /\ world.ents[e].kind = "terrain"
        /\ world.ents[e].zoning = Some("None")
        /\ world' = [world EXCEPT !.ents[e].zoning = Some("Terraform")]
    /\ batch' = <<>>
    /\ prev' = world
    /\ UNCHANGED queue

NextZoning ==
    \/ Next
    \/ SetZoning

SpecZoning == Init /\ [][NextZoning]_vars

(***************************************************************************)
(* A system that submits three commands for one tile before the queue is   *)
(* applied: Spawn Terrain, then two of Spawn Ghost and Apply Terraforming. *)
(***************************************************************************)
FifoHeights == {0, 1, 2}

FifoFollowUps(tile_pos) ==
    {SpawnTerrainGhostCommand(tile_pos, terrain_id, a, "Ghost") :
        terrain_id \in GhostTerrainIds, a \in TerraformingAction}
    \cup {ApplyTerraformingCommand(tile_pos, a) : a \in TerraformingAction}

SubmitScript ==
    /\ world = EmptyWorld
    /\ queue = <<>>
    /\ batch = <<>>
    /\ \E tile_pos \in TilePos, height \in FifoHeights, terrain_id \in TerrainIds :
       \E c2 \in FifoFollowUps(tile_pos), c3 \in FifoFollowUps(tile_pos) :
          /\ queue' = add(add(spawn_terrain(queue, tile_pos, height, terrain_id), c2), c3)
          /\ batch' = <<SpawnTerrainCommand(tile_pos, height, terrain_id), c2, c3>>
    /\ UNCHANGED <<world, prev>>

Flush ==
    /\ ~world.aborted
    /\ queue # <<>>
    /\ world' = Write(world, Head(queue))
    /\ queue' = Tail(queue)
    /\ prev' = world
    /\ UNCHANGED batch

NextFifo ==
    \/ SubmitScript
    \/ Flush

SpecFifo == Init /\ [][NextFifo]_vars

(***************************************************************************)
(* A system that submits four commands for one tile before the queue is    *)
(* applied: Spawn Terrain, then any three commands of this core.           *)
(***************************************************************************)
PreviewFollowUps(tile_pos) ==
    {SpawnTerrainGhostCommand(tile_pos, terrain_id, a, ghost_kind) :
        terrain_id \in GhostTerrainIds, a \in GhostActions,
        ghost_kind \in {"Ghost", "Preview"}}
    \cup {DespawnGhostCommand(tile_pos)}
    \cup {ApplyTerraformingCommand(tile_pos, a) : a \in TerraformingAction}
    \cup {SpawnTerrainCommand(tile_pos, height, terrain_id) :
            height \in SpawnHeights, terrain_id \in TerrainIds}

SubmitPreviews ==
    /\ world = EmptyWorld
    /\ queue = <<>>
    /\ batch = <<>>
    /\ \E tile_pos \in TilePos, height \in SpawnHeights, terrain_id \in TerrainIds :
       \E c2 \in PreviewFollowUps(tile_pos), c3 \in PreviewFollowUps(tile_pos),
          c4 \in PreviewFollowUps(tile_pos) :
          /\ queue' = add(add(add(spawn_terrain(queue, tile_pos, height, terrain_id),
                                  c2), c3), c4)
          /\ batch' = <<SpawnTerrainCommand(tile_pos, height, terrain_id), c2, c3, c4>>
    /\ UNCHANGED <<world, prev>>

NextPreviews ==
    \/ SubmitPreviews
    \/ Flush

SpecPreviews == Init /\ [][NextPreviews]_vars

(***************************************************************************)
(* A system that submits four commands before the queue is applied: Spawn  *)
(* Terrain for each of the two tiles, then any two commands of this core,  *)
(* each for either tile.                                                   *)
(***************************************************************************)
SubmitTiles ==
    /\ world = EmptyWorld
    /\ queue = <<>>
    /\ batch = <<>>
    /\ \E t1 \in TilePos, height \in SpawnHeights :
       \E t2 \in TilePos \ {t1}, id1 \in TerrainIds, id2 \in TerrainIds :
       \E c3 \in UNION {PreviewFollowUps(t) : t \in TilePos},
          c4 \in UNION {PreviewFollowUps(t) : t \in TilePos} :
          /\ queue' = add(add(spawn_terrain(spawn_terrain(queue, t1, height, id1),
                                            t2, height, id2), c3), c4)
          /\ batch' = <<SpawnTerrainCommand(t1, height, id1),
                        SpawnTerrainCommand(t2, height, id2), c3, c4>>
    /\ UNCHANGED <<world, prev>>

NextTiles ==
    \/ SubmitTiles
    \/ Flush

SpecTiles == Init /\ [][NextTiles]_vars

TypeOK ==
    /\ world.next \in 1..(MaxEntities + 1)
    /\ Alive(world) \subseteq 1..(world.next - 1)

(***************************************************************************)
(* What the properties speak of.                                           *)
(***************************************************************************)
\* The number of commands of the batch that have been applied, and the last
\* of them; prev is the world that command was applied to.
Applied == Len(batch) - Len(queue)
LastCmd == batch[Applied]

IsGhostCmd(c, kind) == c.cmd = "SpawnTerrainGhost" /\ c.ghost_kind = kind

RECURSIVE Ancestors(_, _)
Ancestors(w, e) ==
    IF e \notin Alive(w) \/ w.ents[e].parent = None THEN {}
    ELSE {Unwrap(w.ents[e].parent)} \cup Ancestors(w, Unwrap(w.ents[e].parent))

\* The entities below g, by their parent links
DescendantsOf(w, g) == {d \in Alive(w) : g \in Ancestors(w, d)}

GhostsAt(w, tile_pos) ==
    {e \in Alive(w) : w.ents[e].kind = "ghost" /\ w.ents[e].tile_pos = Some(tile_pos)}

\* tile_pos has a registered ghost that is alive
Ghosted(w, tile_pos) ==
    /\ get_ghost_terrain(w, tile_pos) # None
    /\ contains(w, Unwrap(get_ghost_terrain(w, tile_pos)))

(***************************************************************************)
(* C1  Ghost replacement: Spawn Ghost (with a terrain type that has a      *)
(* scene) at a valid tile whose registered ghost G is alive leaves exactly *)
(* one ghost at the tile, registered, newly created and not G; G and all   *)
(* of G's descendants have left the world.                                 *)
(***************************************************************************)
GhostReplacement ==
    Applied >= 1 =>
      LET c == LastCmd IN
        (/\ IsGhostCmd(c, "Ghost")
         /\ is_valid(prev, c.tile_pos)
         /\ scenes_get(c.terrain_id) # None
         /\ Ghosted(prev, c.tile_pos)) =>
          LET G == Unwrap(get_ghost_terrain(prev, c.tile_pos)) IN
            /\ ~world.aborted
            /\ get_ghost_terrain(world, c.tile_pos) # None
            /\ LET new == Unwrap(get_ghost_terrain(world, c.tile_pos)) IN
                /\ new # G
                /\ new \notin Alive(prev)
                /\ GhostsAt(world, c.tile_pos) = {new}
            /\ G \notin Alive(world)
            /\ DescendantsOf(prev, G) \cap Alive(world) = {}

\* A ghost that had a descendant has been replaced.
GhostReplacementWitness ==
    /\ Applied >= 1
    /\ IsGhostCmd(LastCmd, "Ghost")
    /\ Ghosted(prev, LastCmd.tile_pos)
    /\ DescendantsOf(prev, Unwrap(get_ghost_terrain(prev, LastCmd.tile_pos))) # {}
    /\ Ghosted(world, LastCmd.tile_pos)

(***************************************************************************)
(* C2  Uniqueness: in every reachable state each tile has at most one      *)
(* registered terrain entity, at most one registered ghost entity, and at  *)
(* most one live ghost entity that carries the tile's coordinate.          *)
(***************************************************************************)
Uniqueness ==
    \A tile_pos \in TilePos :
        /\ Cardinality(get_terrain(world, tile_pos)) <= 1
        /\ Cardinality(get_ghost_terrain(world, tile_pos)) <= 1
        /\ Cardinality(GhostsAt(world, tile_pos)) <= 1

\* A second Spawn Ghost has been applied to a ghosted tile.
UniquenessWitness ==
    /\ Applied >= 1
    /\ IsGhostCmd(LastCmd, "Ghost")
    /\ Ghosted(prev, LastCmd.tile_pos)
    /\ Cardinality(GhostsAt(world, LastCmd.tile_pos)) = 1

(***************************************************************************)
(* C3  Recursive teardown: Despawn Ghost at a tile with a registered ghost *)
(* G empties the tile's ghost entry and removes exactly G and G's          *)
(* descendants from the world.                                             *)
(***************************************************************************)
RecursiveTeardown ==
    Applied >= 1 =>
      LET c == LastCmd IN
        (c.cmd = "DespawnGhost" /\ get_ghost_terrain(prev, c.tile_pos) # None) =>
          LET G == Unwrap(get_ghost_terrain(prev, c.tile_pos)) IN
            /\ ~world.aborted
            /\ get_ghost_terrain(world, c.tile_pos) = None
            /\ Alive(world) = Alive(prev) \ ({G} \cup DescendantsOf(prev, G))

\* A ghost with a descendant has been despawned while other entities live.
RecursiveTeardownWitness ==
    /\ Applied >= 1
    /\ LastCmd.cmd = "DespawnGhost"
    /\ get_ghost_terrain(prev, LastCmd.tile_pos) # None
    /\ DescendantsOf(prev, Unwrap(get_ghost_terrain(prev, LastCmd.tile_pos))) # {}
    /\ Alive(world) # {}
    /\ ~world.aborted

(***************************************************************************)
(* C4  Abort atomicity: when a command aborts, the index and the entity    *)
(* store are as they were before the command.                              *)
(***************************************************************************)
AbortAtomicity ==
    (Applied >= 1 /\ world.aborted) => [world EXCEPT !.aborted = FALSE] = prev

(***************************************************************************)
(* C5  Stale ghost reference: when the index registers at a tile a ghost   *)
(* that is no longer alive, Despawn Ghost at the tile, and Spawn Ghost at  *)
(* the tile (valid, with a terrain type that has a scene), do not abort    *)
(* and despawn no entity.                                                  *)
(***************************************************************************)
StaleGhostBenign ==
    Applied >= 1 =>
      LET c == LastCmd IN
        (/\ \/ c.cmd = "DespawnGhost"
            \/ /\ IsGhostCmd(c, "Ghost")
               /\ is_valid(prev, c.tile_pos)
               /\ scenes_get(c.terrain_id) # None
         /\ get_ghost_terrain(prev, c.tile_pos) # None
         /\ ~contains(prev, Unwrap(get_ghost_terrain(prev, c.tile_pos)))) =>
            /\ ~world.aborted
            /\ Alive(prev) \subseteq Alive(world)

(***************************************************************************)
(* C6  Preview isolation: Spawn Preview at a tile leaves the tile's        *)
(* terrain entry, ghost entry and height as they were, and a ghost         *)
(* registered at the tile stays alive, unchanged.                          *)
(***************************************************************************)
PreviewIsolation ==
    Applied >= 1 =>
      LET c == LastCmd IN
        IsGhostCmd(c, "Preview") =>
            /\ get_terrain(world, c.tile_pos) = get_terrain(prev, c.tile_pos)
            /\ get_ghost_terrain(world, c.tile_pos) = get_ghost_terrain(prev, c.tile_pos)
            /\ get_height(world, c.tile_pos) = get_height(prev, c.tile_pos)
            /\ Ghosted(prev, c.tile_pos) =>
                LET G == Unwrap(get_ghost_terrain(prev, c.tile_pos)) IN
                    /\ contains(world, G)
                    /\ world.ents[G] = prev.ents[G]

\* A preview has been spawned on a tile that has a live ghost.
PreviewIsolationWitness ==
    /\ Applied >= 1
    /\ IsGhostCmd(LastCmd, "Preview")
    /\ Ghosted(prev, LastCmd.tile_pos)
    /\ Previews(world) \ Alive(prev) # {}

(***************************************************************************)
(* C7  FIFO order. A batch Spawn Terrain(T,h), Spawn Ghost(T,A), Apply     *)
(* Terraforming(T,A) on a valid tile T, with terrain types that have       *)
(* scenes, is applied in submission order without aborting: the ghost      *)
(* previews h adjusted once by A and the committed height is h adjusted    *)
(* once by A. With the last two submitted the other way round the ghost    *)
(* previews the committed height adjusted by A once more; that is another  *)
(* final world for Raise and Lower, and the same final world for Change.   *)
(***************************************************************************)
Adjusted(h, a) ==
    IF a.op = "Raise" THEN h + 1 ELSE IF a.op = "Lower" THEN h - 1 ELSE h

\* The world after the commands of s, applied one after the other
FinalOf(s) == Write(Write(Write(EmptyWorld, s[1]), s[2]), s[3])

Swapped(s) == <<s[1], s[3], s[2]>>

\* s is Spawn Terrain, Spawn Ghost, Apply Terraforming with one action, on a
\* valid tile, and no terrain type without a scene
InOrder(s) ==
    /\ Len(s) = 3
    /\ s[1].tile_pos \in ValidTiles
    /\ scenes_get(s[1].terrain_id) # None
    /\ IsGhostCmd(s[2], "Ghost")
    /\ scenes_get(s[2].terrain_id) # None
    /\ s[3].cmd = "ApplyTerraforming"
    /\ s[3].terraforming_action = s[2].terraforming_action
    /\ s[3].terraforming_action.op = "Change" =>
            scenes_get(Unwrap(s[3].terraforming_action.to)) # None

Reordered(s) == Len(s) = 3 /\ InOrder(Swapped(s))

GhostHeightAt(w, tile_pos) == w.ents[Unwrap(get_ghost_terrain(w, tile_pos))].height
TerrainHeightAt(w, tile_pos) == w.ents[Unwrap(get_terrain(w, tile_pos))].height

FifoOrder ==
    /\ InOrder(batch) =>
        /\ ~world.aborted
        /\ queue = <<>> =>
            LET T == batch[1].tile_pos
                h == batch[1].height
                a == batch[3].terraforming_action
            IN  /\ Ghosted(world, T)
                /\ GhostHeightAt(world, T) = Some(Adjusted(h, a))
                /\ get_height(world, T) = Some(Adjusted(h, a))
                /\ TerrainHeightAt(world, T) = Some(Adjusted(h, a))
    /\ Reordered(batch) =>
        /\ ~world.aborted
        /\ queue = <<>> =>
            LET T == batch[1].tile_pos
                h == batch[1].height
                a == batch[2].terraforming_action
            IN  /\ Ghosted(world, T)
                /\ GhostHeightAt(world, T) = Some(Adjusted(Adjusted(h, a), a))
                /\ get_height(world, T) = Some(Adjusted(h, a))
                /\ TerrainHeightAt(world, T) = Some(Adjusted(h, a))
                /\ a.op \in {"Raise", "Lower"} => world # FinalOf(Swapped(batch))
                /\ a.op = "Change" => world = FinalOf(Swapped(batch))

\* The reordered batch with Raise has been applied to the end.
FifoOrderWitness ==
    /\ Reordered(batch)
    /\ queue = <<>>
    /\ batch[2].terraforming_action = Raise
    /\ Ghosted(world, batch[1].tile_pos)

\* The claim as stated: for every action, the two orders end in different
\* worlds (here for the actions that do change the terrain: a Change to the
\* type the terrain was spawned with is left out).
FifoOrderSensitive ==
    (/\ InOrder(batch) \/ Reordered(batch)
     /\ queue = <<>>
     /\ \A i \in {2, 3} :
            batch[i].terraforming_action # Change(batch[1].terrain_id)) =>
        world # FinalOf(Swapped(batch))

(***************************************************************************)
(* C8  Raise/Lower round trip: Spawn Terrain(T,h), Apply Terraforming      *)
(* (T,Raise), Apply Terraforming(T,Lower) ends with height h in the        *)
(* terrain entity and in the index; and Apply Terraforming(T,Change(t)) on *)
(* a tile with terrain leaves both heights as they were.                   *)
(***************************************************************************)
IsRoundTrip(s) ==
    /\ Len(s) = 3
    /\ scenes_get(s[1].terrain_id) # None
    /\ s[2] = ApplyTerraformingCommand(s[1].tile_pos, Raise)
    /\ s[3] = ApplyTerraformingCommand(s[1].tile_pos, Lower)

RaiseLowerRoundTrip ==
    /\ IsRoundTrip(batch) =>
        /\ ~world.aborted
        /\ queue = <<>> =>
            /\ get_height(world, batch[1].tile_pos) = Some(batch[1].height)
            /\ TerrainHeightAt(world, batch[1].tile_pos) = Some(batch[1].height)
    /\ Applied >= 1 =>
        LET c == LastCmd IN
          (/\ c.cmd = "ApplyTerraforming"
           /\ c.terraforming_action.op = "Change"
           /\ get_terrain(prev, c.tile_pos) # None) =>
              /\ get_height(world, c.tile_pos) = get_height(prev, c.tile_pos)
              /\ get_terrain(world, c.tile_pos) = get_terrain(prev, c.tile_pos)
              /\ TerrainHeightAt(world, c.tile_pos) = TerrainHeightAt(prev, c.tile_pos)

\* Raise and then Lower have been applied to terrain spawned at height 1.
RaiseLowerRoundTripWitness ==
    /\ IsRoundTrip(batch)
    /\ queue = <<>>
    /\ batch[1].height = 1
    /\ TerrainHeightAt(prev, batch[1].tile_pos) = Some(2)
    /\ TerrainHeightAt(world, batch[1].tile_pos) = Some(1)

(***************************************************************************)
(* C9  Spawn Ghost does not commit: Spawn Ghost or Spawn Preview with      *)
(* action A (and a terrain type that has a scene) at a valid tile of       *)
(* committed height h creates one entity, of the requested kind, whose     *)
(* previewed height is h+1 for Raise, h-1 for Lower and h for Change; the  *)
(* tile's height record, its terrain entry and the terrain entity stay as  *)
(* they were.                                                              *)
(***************************************************************************)
KindOf(ghost_kind) == IF ghost_kind = "Ghost" THEN "ghost" ELSE "preview"

GhostDoesNotCommit ==
    Applied >= 1 =>
      LET c == LastCmd IN
        (/\ c.cmd = "SpawnTerrainGhost"
         /\ is_valid(prev, c.tile_pos)
         /\ scenes_get(c.terrain_id) # None
         /\ get_height(prev, c.tile_pos) # None) =>
          LET h == Unwrap(get_height(prev, c.tile_pos))
              created == Alive(world) \ Alive(prev)
          IN  /\ ~world.aborted
              /\ Cardinality(created) = 1
              /\ \A e \in created :
                    /\ world.ents[e].kind = KindOf(c.ghost_kind)
                    /\ world.ents[e].tile_pos = Some(c.tile_pos)
                    /\ c.terraforming_action.op = "Raise" =>
                            world.ents[e].height = Some(h + 1)
                    /\ c.terraforming_action.op = "Lower" =>
                            world.ents[e].height = Some(h - 1)
                    /\ c.terraforming_action.op = "Change" =>
                            world.ents[e].height = Some(h)
              /\ get_height(world, c.tile_pos) = Some(h)
              /\ get_terrain(world, c.tile_pos) = get_terrain(prev, c.tile_pos)
              /\ \A t \in get_terrain(prev, c.tile_pos) :
                    contains(world, t) /\ world.ents[t] = prev.ents[t]

\* A ghost that previews Lower has been spawned on a tile with terrain.
GhostDoesNotCommitWitness ==
    /\ Applied >= 1
    /\ IsGhostCmd(LastCmd, "Ghost")
    /\ LastCmd.terraforming_action = Lower
    /\ get_terrain(prev, LastCmd.tile_pos) # None
    /\ Ghosted(world, LastCmd.tile_pos)
    /\ Unwrap(get_ghost_terrain(world, LastCmd.tile_pos)) \notin Alive(prev)

(***************************************************************************)
(* C10  Apply Terraforming leaves ghosts untouched: it changes no ghost    *)
(* entry of the index, and every ghost and preview entity stays alive with *)
(* the action and height it previews.                                      *)
(***************************************************************************)
ApplyLeavesGhosts ==
    Applied >= 1 =>
      LET c == LastCmd IN
        c.cmd = "ApplyTerraforming" =>
            /\ world.ghost_terrain_index = prev.ghost_terrain_index
            /\ \A e \in Alive(prev) :
                prev.ents[e].kind \in {"ghost", "preview"} =>
                    contains(world, e) /\ world.ents[e] = prev.ents[e]

\* An action has been applied to a tile that has a live ghost, while a
\* preview is alive.
ApplyLeavesGhostsWitness ==
    /\ Applied >= 1
    /\ LastCmd.cmd = "ApplyTerraforming"
    /\ ~world.aborted
    /\ Ghosted(prev, LastCmd.tile_pos)
    /\ Previews(prev) # {}
    /\ get_height(world, LastCmd.tile_pos) # get_height(prev, LastCmd.tile_pos)

(***************************************************************************)
(* C11  Apply Terraforming resolves the edit: after Apply Terraforming     *)
(* (with an action whose terrain type, if any, has a scene) at a tile with *)
(* a registered terrain entity, whatever that entity's zoning was, its     *)
(* zoning is "None"; after Change(t) its terrain type is t; the zoning of  *)
(* every other terrain entity is as it was.                                *)
(***************************************************************************)
Terrains(w) == {e \in Alive(w) : w.ents[e].kind = "terrain"}

ZoningResolved ==
    Applied >= 1 =>
      LET c == LastCmd IN
        (/\ c.cmd = "ApplyTerraforming"
         /\ get_terrain(prev, c.tile_pos) # None
         /\ c.terraforming_action.op = "Change" =>
                scenes_get(Unwrap(c.terraforming_action.to)) # None) =>
          LET e == Unwrap(get_terrain(prev, c.tile_pos)) IN
            /\ ~world.aborted
            /\ contains(world, e)
            /\ world.ents[e].zoning = Some("None")
            /\ c.terraforming_action.op = "Change" =>
                    world.ents[e].terrain_id = c.terraforming_action.to
            /\ \A o \in Terrains(prev) \ {e} :
                    contains(world, o) /\ world.ents[o].zoning = prev.ents[o].zoning

\* A Change to another type has been applied to a zoned terrain entity
\* while another terrain entity is zoned.
ZoningResolvedWitness ==
    /\ Applied >= 1
    /\ LastCmd.cmd = "ApplyTerraforming"
    /\ LastCmd.terraforming_action.op = "Change"
    /\ get_terrain(prev, LastCmd.tile_pos) # None
    /\ LET e == Unwrap(get_terrain(prev, LastCmd.tile_pos)) IN
        /\ prev.ents[e].zoning = Some("Terraform")
        /\ world.ents[e].zoning = Some("None")
        /\ world.ents[e].terrain_id # prev.ents[e].terrain_id
        /\ \E o \in Terrains(world) \ {e} : world.ents[o].zoning = Some("Terraform")

(***************************************************************************)
(* C12  Spawn Terrain overwrites: after Spawn Terrain(T, h, type) with a   *)
(* type that has a scene, whatever T had before, the terrain entry of T is *)
(* an entity the command created, not the one registered before, and the   *)
(* height record of T is h.                                                *)
(***************************************************************************)
TerrainOverwrite ==
    Applied >= 1 =>
      LET c == LastCmd IN
        (c.cmd = "SpawnTerrain" /\ scenes_get(c.terrain_id) # None) =>
            /\ ~world.aborted
            /\ get_terrain(world, c.tile_pos) # None
            /\ LET new == Unwrap(get_terrain(world, c.tile_pos)) IN
                /\ new \notin Alive(prev)
                /\ new \notin get_terrain(prev, c.tile_pos)
                /\ contains(world, new)
                /\ world.ents[new].kind = "terrain"
                /\ world.ents[new].tile_pos = Some(c.tile_pos)
                /\ world.ents[new].terrain_id = Some(c.terrain_id)
            /\ get_height(world, c.tile_pos) = Some(c.height)

\* Terrain has been spawned on a tile that had terrain of another height.
TerrainOverwriteWitness ==
    /\ Applied >= 1
    /\ LastCmd.cmd = "SpawnTerrain"
    /\ ~world.aborted
    /\ get_terrain(prev, LastCmd.tile_pos) # None
    /\ get_height(prev, LastCmd.tile_pos) # Some(LastCmd.height)
    /\ get_terrain(world, LastCmd.tile_pos) # get_terrain(prev, LastCmd.tile_pos)

(***************************************************************************)
(* C13  Out-of-bounds no-op: Spawn Ghost and Spawn Preview at a tile that  *)
(* is not valid leave the world as it was: no entity is created or         *)
(* despawned, no index entry changes, and the command does not abort,      *)
(* whether or not the terrain type has a scene and the tile a height.      *)
(***************************************************************************)
OutOfBoundsNoOp ==
    Applied >= 1 =>
      LET c == LastCmd IN
        (c.cmd = "SpawnTerrainGhost" /\ ~is_valid(prev, c.tile_pos)) =>
            /\ ~world.aborted
            /\ Alive(world) = Alive(prev)
            /\ world.ents = prev.ents
            /\ world.terrain_index = prev.terrain_index
            /\ world.ghost_terrain_index = prev.ghost_terrain_index
            /\ world.height_index = prev.height_index

\* A ghost of a type without a scene has been requested outside the map, on
\* a tile without a height, in a world that has entities.
OutOfBoundsNoOpWitness ==
    /\ Applied >= 1
    /\ IsGhostCmd(LastCmd, "Ghost")
    /\ ~is_valid(prev, LastCmd.tile_pos)
    /\ scenes_get(LastCmd.terrain_id) = None
    /\ get_height(prev, LastCmd.tile_pos) = None
    /\ Alive(prev) # {}
    /\ ~world.aborted

(***************************************************************************)
(* C14  Despawn on an empty tile is a no-op: Despawn Ghost at a tile with  *)
(* no registered ghost leaves the live entities and every index entry as   *)
(* they were, and does not abort.                                          *)
(***************************************************************************)
DespawnEmptyNoOp ==
    Applied >= 1 =>
      LET c == LastCmd IN
        (c.cmd = "DespawnGhost" /\ get_ghost_terrain(prev, c.tile_pos) = None) =>
            /\ ~world.aborted
            /\ Alive(world) = Alive(prev)
            /\ Cardinality(Alive(world)) = Cardinality(Alive(prev))
            /\ world.ents = prev.ents
            /\ world.terrain_index = prev.terrain_index
            /\ world.ghost_terrain_index = prev.ghost_terrain_index
            /\ world.height_index = prev.height_index

\* Despawn Ghost has been applied to a tile with terrain and no ghost, in a
\* world that has a preview.
DespawnEmptyNoOpWitness ==
    /\ Applied >= 1
    /\ LastCmd.cmd = "DespawnGhost"
    /\ get_ghost_terrain(prev, LastCmd.tile_pos) = None
    /\ get_terrain(prev, LastCmd.tile_pos) # None
    /\ Previews(prev) # {}
    /\ ~world.aborted

(***************************************************************************)
(* C15  Terrain child order: every terrain entity has the column as child  *)
(* 0 and the hidden overlay as child 1 from the moment Spawn Terrain has   *)
(* been applied; the scene root is not created by the command: the scene   *)
(* spawner attaches it afterwards, as child 2. So the list has two         *)
(* children, then three. No command changes the children of a terrain      *)
(* entity.                                                                 *)
(***************************************************************************)
ChildKinds(w, e) == [i \in 1..Len(w.ents[e].children) |-> w.ents[w.ents[e].children[i]].kind]

PreviewCmds(n) ==
    {i \in 1..n : IsGhostCmd(batch[i], "Preview") /\ batch[i].tile_pos \in ValidTiles}

PreviewsKept ==
    /\ Applied >= 1 =>
        \A e \in Previews(prev) : contains(world, e) /\ world.ents[e] = prev.ents[e]
    /\ \A tile_pos \in TilePos :
        /\ get_terrain(world, tile_pos) \cap Previews(world) = {}
        /\ get_ghost_terrain(world, tile_pos) \cap Previews(world) = {}
    /\ ~world.aborted => Cardinality(Previews(world)) = Cardinality(PreviewCmds(Applied))

\* Two previews at one tile, with a Spawn Ghost applied between them and
\* a Despawn Ghost after them.
PreviewsKeptWitness ==
    /\ Applied = 4
    /\ ~world.aborted
    /\ PreviewCmds(4) = {2, 4}
    /\ IsGhostCmd(batch[3], "Ghost")
    /\ Cardinality(Previews(world)) = 2

(***************************************************************************)
(* C17  Height consistency: for every tile that has a registered terrain   *)
(* entity, the index records a height for the tile, and it is the height   *)
(* of that entity.                                                         *)
(***************************************************************************)
HeightConsistency ==
    \A tile_pos \in TilePos :
        (/\ get_terrain(world, tile_pos) # None
         /\ contains(world, Unwrap(get_terrain(world, tile_pos))))
        => /\ get_height(world, tile_pos) # None
           /\ get_height(world, tile_pos) = TerrainHeightAt(world, tile_pos)

\* A raise has been applied to terrain spawned over raised terrain: the
\* tile's height has moved away from the height it was spawned at.
HeightConsistencyWitness ==
    /\ Applied >= 1
    /\ ~world.aborted
    /\ LastCmd.cmd = "ApplyTerraforming"
    /\ LastCmd.terraforming_action.op = "Raise"
    /\ get_height(world, LastCmd.tile_pos) = Some(2)
    /\ Cardinality({e \in Terrains(world) :
                        world.ents[e].tile_pos = Some(LastCmd.tile_pos)}) = 2

(***************************************************************************)
(* C18  Ghost index and world agree: with no despawn from outside, every   *)
(* ghost entry of the index refers to a live ghost entity that carries the *)
(* entry's tile, and every live ghost entity is the entry of its tile.     *)
(***************************************************************************)
GhostIndexAgrees ==
    /\ \A tile_pos \in TilePos :
        get_ghost_terrain(world, tile_pos) # None =>
            LET g == Unwrap(get_ghost_terrain(world, tile_pos))
            IN  /\ contains(world, g)
                /\ world.ents[g].kind = "ghost"
                /\ world.ents[g].tile_pos = Some(tile_pos)
    /\ \A e \in Alive(world) :
        world.ents[e].kind = "ghost" =>
            /\ world.ents[e].tile_pos # None
            /\ get_ghost_terrain(world, Unwrap(world.ents[e].tile_pos)) = Some(e)

\* A ghost has been spawned at a tile whose earlier ghost was despawned,
\* and a preview is alive beside it.
GhostIndexAgreesWitness ==
    /\ Applied >= 1
    /\ ~world.aborted
    /\ IsGhostCmd(LastCmd, "Ghost")
    /\ ~Ghosted(prev, LastCmd.tile_pos)
    /\ \E e \in 1..(prev.next - 1) :
        /\ ~contains(prev, e)
        /\ ~contains(world, e)
    /\ Previews(world) # {}
    /\ GhostsAt(world, LastCmd.tile_pos) = get_ghost_terrain(world, LastCmd.tile_pos)
    /\ GhostsAt(world, LastCmd.tile_pos) # {}

(***************************************************************************)
(* C19  Tile locality: a command applied with tile T leaves the terrain    *)
(* entry, the ghost entry and the height of every other tile as they were, *)
(* and leaves every entity registered at another tile alive and unchanged. *)
(***************************************************************************)
RegisteredAt(w, tile_pos) ==
    (get_terrain(w, tile_pos) \cup get_ghost_terrain(w, tile_pos)) \cap Alive(w)

====
